---- MODULE Spec2Model ----
(***************************************************************************)
(* A model of the papyrus peer-to-peer networking core:                    *)
(*   - the session router, get_blocks::Behaviour (behaviour.rs);           *)
(*   - the discovery stream, papyrus_discovery::Discovery (lib.rs);        *)
(*   - the network manager loop driven against MockSwarm and               *)
(*     MockDBExecutor (network_manager/test.rs).                           *)
(* Each component has its own specification over the shared variables.     *)
(***************************************************************************)
EXTENDS Integers, Sequences, FiniteSets, TLC

VARIABLES
    \* ---- session router (Behaviour) ----
    pending_events,             \* VecDeque<ToSwarm<..>>
    pending_queries,            \* DefaultHashMap<PeerId, Vec<(Query, OutboundSessionId)>>
    connected_peers,            \* HashSet<PeerId>
    next_outbound_session_id,   \* OutboundSessionId
    r_panicked,                 \* the router hit todo!() / unimplemented!()
    r_linked,                   \* peers with ConnectionEstablished delivered and not closed since
    r_returned,                 \* the send_query calls with the id each returned, in call order
    r_polled,                   \* events returned by poll, in order
    r_last,                     \* the last router operation and its arguments
    \* ---- discovery (Discovery) ----
    found_peers_limit,          \* discovery_config.found_peers_limit: <<>> is None, <<n>> is Some(n)
    found_peers,                \* HashSet<PeerId>
    is_peer_5,                  \* global_peers_names names the local peer "5"
    swarm_events,               \* events the swarm has ready, oldest first
    kad_addresses,              \* (peer, address) pairs passed to kademlia.add_address
    kad_queries,                \* closest-peers queries started by perform_closest_peer_query
    d_emitted,                  \* the (PeerId, Multiaddr) items the stream has yielded
    d_dropped,                  \* peers for which poll_next took a found-peer event and yielded nothing
    d_last,                     \* the result of the last poll_next
    \* ---- network manager with MockSwarm and MockDBExecutor ----
    header_buffer_size,         \* capacity given to each inbound session's channel
    headers_of,                 \* the fixture: the header results of each query
    swarm_pending,              \* MockSwarm.pending_events (NewInboundQuery events)
    query_to_headers,           \* MockDBExecutor.query_to_headers
    next_query_id,              \* MockDBExecutor.next_query_id
    task,                       \* the spawned query tasks, by inbound session
    chan,                       \* the mpsc channel of each inbound session
    active_inbound,             \* the manager's retained (inbound id, receiver) entries
    sent,                       \* the send_data calls made for each inbound session id
    m_panicked,                 \* MockSwarm::send_data panicked
    m_dropped                   \* the manager has been dropped

rvars == <<pending_events, pending_queries, connected_peers,
           next_outbound_session_id, r_panicked, r_linked, r_returned,
           r_polled, r_last>>

dvars == <<found_peers_limit, found_peers, is_peer_5, swarm_events,
           kad_addresses, kad_queries, d_emitted, d_dropped, d_last>>

mvars == <<header_buffer_size, headers_of, swarm_pending, query_to_headers,
           next_query_id, task, chan, active_inbound, sent, m_panicked,
           m_dropped>>

vars == <<rvars, dvars, mvars>>

(***************************************************************************)
(* Bounds and input sets                                                   *)
(***************************************************************************)
MaxSessions == 3

MaxQueue == 2

MaxLimit == 1

MaxQueries == 1

MaxHeaders == 3

MaxBuffer == 2

Peers == {"p1", "p2"}

Queries == {"q1", "q2"}

(***************************************************************************)
(* Session router: get_blocks/behaviour.rs                                 *)
(***************************************************************************)

\* ToSwarm::Dial { opts: DialOpts::peer_id(p).condition(Disconnected) }
Dial(p) == [type |-> "Dial", peer |-> p, condition |-> "Disconnected"]

\* ToSwarm::NotifyHandler { peer_id, handler: Any, event: NewQueryEvent{..} }
NotifyHandler(p, q, id) ==
    [type |-> "NotifyHandler", peer |-> p, query |-> q, id |-> id]

\* the queries pending for p (DefaultHashMap: the default is the empty Vec)
PendingOf(pq, p) == IF p \in DOMAIN pq THEN pq[p] ELSE <<>>

\* mutant: the push replaces what was pending for the peer
PushPendingOverwrite(pq, p, q, id) ==
    [x \in (DOMAIN pq) \cup {p} |-> IF x = p THEN <<<<q, id>>>> ELSE pq[x]]

\* self.pending_queries.get_mut(peer_id).push((query, id))
PushPending(pq, p, q, id) ==
    [x \in (DOMAIN pq) \cup {p} |->
        IF x = p THEN Append(PendingOf(pq, p), <<q, id>>) ELSE pq[x]]

\* mutant: the drained entry is left in the map
RemovePendingKeep(pq, p) == pq

\* self.pending_queries.remove(&peer_id): the map without the entry
RemovePending(pq, p) == [x \in (DOMAIN pq) \ {p} |-> pq[x]]

\* mutant: the drain dials again before each notification
RECURSIVE NotifyAllRedial(_, _)
NotifyAllRedial(p, qs) ==
    IF qs = <<>> THEN <<>>
    ELSE <<Dial(p), NotifyHandler(p, qs[1][1], qs[1][2])>> \o NotifyAllRedial(p, Tail(qs))

\* send_query_to_handler for each drained (query, id), in Vec order
RECURSIVE NotifyAll(_, _)
NotifyAll(p, qs) ==
    IF qs = <<>> THEN <<>>
    ELSE <<NotifyHandler(p, qs[1][1], qs[1][2])>> \o NotifyAll(p, Tail(qs))

\* mutant: the counter is not advanced
NextSessionIdStuck(id) == id

\* self.next_outbound_session_id.value += 1
NextSessionId(id) == id + 1

\* mutant: the connected test is inverted
IsConnectedInverted(cp, p) == p \notin cp

\* the branch of send_query taken for peer p
IsConnected(cp, p) == p \in cp

\* mutant: the newest event is taken
PopBack(q) == [event |-> q[Len(q)], rest |-> SubSeq(q, 1, Len(q) - 1)]

\* self.pending_events.pop_front() on a non-empty queue
PopFront(q) == [event |-> Head(q), rest |-> Tail(q)]

RouterInit ==
    /\ pending_events = <<>>
    /\ pending_queries = <<>>
    /\ connected_peers = {}
    /\ next_outbound_session_id = 0
    /\ r_panicked = FALSE
    /\ r_linked = {}
    /\ r_returned = <<>>
    /\ r_polled = <<>>
    /\ r_last = [op |-> "new"]

SendQuery(q, p) ==
    /\ ~r_panicked
    /\ next_outbound_session_id < MaxSessions
    /\ LET id == next_outbound_session_id IN
        /\ next_outbound_session_id' = NextSessionId(next_outbound_session_id)
        /\ IF IsConnected(connected_peers, p)
           THEN /\ pending_events' = Append(pending_events, NotifyHandler(p, q, id))
                /\ pending_queries' = pending_queries
           ELSE /\ pending_events' = Append(pending_events, Dial(p))
                /\ pending_queries' = PushPending(pending_queries, p, q, id)
        /\ r_returned' = Append(r_returned, [id |-> id, peer |-> p, query |-> q])
        /\ r_last' = [op |-> "send_query", peer |-> p, query |-> q, id |-> id]
    /\ UNCHANGED <<connected_peers, r_panicked, r_linked, r_polled>>
    /\ UNCHANGED <<dvars, mvars>>

\* on_swarm_event(FromSwarm::ConnectionEstablished)
ConnectionEstablished(p) ==
    /\ ~r_panicked
    /\ IF p \in DOMAIN pending_queries
       THEN /\ pending_events' = pending_events \o NotifyAll(p, pending_queries[p])
            /\ pending_queries' = RemovePending(pending_queries, p)
       ELSE UNCHANGED <<pending_events, pending_queries>>
    /\ r_linked' = r_linked \cup {p}
    /\ r_last' = [op |-> "ConnectionEstablished", peer |-> p]
    /\ UNCHANGED <<connected_peers, next_outbound_session_id, r_panicked,
                   r_returned, r_polled>>
    /\ UNCHANGED <<dvars, mvars>>

\* on_swarm_event(_): todo!() panics
OtherSwarmEvent(kind, p) ==
    /\ ~r_panicked
    /\ kind = "ConnectionClosed" => p \in r_linked
    /\ r_panicked' = TRUE
    /\ r_linked' = IF kind = "ConnectionClosed" THEN r_linked \ {p} ELSE r_linked
    /\ r_last' = [op |-> kind, peer |-> p]
    /\ UNCHANGED <<pending_events, pending_queries, connected_peers,
                   next_outbound_session_id, r_returned, r_polled>>
    /\ UNCHANGED <<dvars, mvars>>

\* Behaviour::send_data: unimplemented!() panics, whatever the id
SendData(id) ==
    /\ ~r_panicked
    /\ r_panicked' = TRUE
    /\ r_last' = [op |-> "send_data", id |-> id]
    /\ UNCHANGED <<pending_events, pending_queries, connected_peers,
                   next_outbound_session_id, r_linked, r_returned, r_polled>>
    /\ UNCHANGED <<dvars, mvars>>

\* the outbound sessions the swarm has handed to a handler of peer p
AtHandler(p) ==
    {r_polled[i].id : i \in {j \in DOMAIN r_polled :
                                /\ r_polled[j].type = "NotifyHandler"
                                /\ r_polled[j].peer = p}}

\* Event::RecievedData { data, outbound_session_id }
RecievedData(d, id) == [type |-> "RecievedData", data |-> d, id |-> id]

\* on_connection_handler_event: the body is empty, the handler's event
\* (data d received on outbound session id of peer p) is discarded
HandlerEvent(p, id, d) ==
    /\ ~r_panicked
    /\ id \in AtHandler(p)
    /\ r_last' = [op |-> "handler_event", peer |-> p, id |-> id, data |-> d]
    /\ UNCHANGED <<pending_events, pending_queries, connected_peers,
                   next_outbound_session_id, r_panicked, r_linked, r_returned,
                   r_polled>>
    /\ UNCHANGED <<dvars, mvars>>

\* NetworkBehaviour::poll
Poll ==
    /\ ~r_panicked
    /\ IF pending_events # <<>>
       THEN /\ pending_events' = PopFront(pending_events).rest
            /\ r_polled' = Append(r_polled, PopFront(pending_events).event)
            /\ r_last' = [op |-> "poll", result |-> "Ready"]
       ELSE /\ UNCHANGED <<pending_events, r_polled>>
            /\ r_last' = [op |-> "poll", result |-> "Pending"]
    /\ UNCHANGED <<pending_queries, connected_peers, next_outbound_session_id,
                   r_panicked, r_linked, r_returned>>
    /\ UNCHANGED <<dvars, mvars>>

(***************************************************************************)
(* Discovery: papyrus_discovery/src/lib.rs                                 *)
(***************************************************************************)

\* Multiaddrs, as sequences of protocol components; "p2p" is Protocol::P2p(_)
AddrPlain == <<"ip4", "tcp">>
AddrTagged == <<"ip4", "tcp", "p2p">>
AddrTwoTags == <<"ip4", "tcp", "p2p", "p2p">>

\* the events the swarm can hand to poll_next
FoundEvents ==
    [kind : {"RoutingUpdated"}, peer : Peers, addresses : {<<AddrTwoTags, AddrPlain>>}]
    \cup [kind : {"RoutablePeer"}, peer : Peers, address : {AddrTagged}]
    \cup [kind : {"PendingRoutablePeer"}, peer : Peers, address : {AddrPlain}]

IdentifyEvents ==
    [kind : {"Identify"}, peer : {"p1"}, listen_addrs : {<<AddrPlain, AddrTagged>>}]

OtherEvents ==
    [kind : {"GetClosestPeers"}, peers : {Peers}]
    \cup [kind : {"IncomingConnection", "Other"}]

SwarmEvents == FoundEvents \cup IdentifyEvents \cup OtherEvents

\* if let Some(Protocol::P2p(_)) = address.iter().last() { address.pop(); }
StripPeerIdTag(address) ==
    IF address # <<>> /\ address[Len(address)] = "p2p"
    THEN SubSeq(address, 1, Len(address) - 1)
    ELSE address

\* mutant: no test against found_peers
HandleFoundPeerNoDedup(found, peer, address) ==
    [found |-> found \cup {peer}, item |-> <<<<peer, StripPeerIdTag(address)>>>>]

\* mutant: the peer is yielded but not inserted into found_peers
HandleFoundPeerNoInsert(found, peer, address) ==
    IF peer \notin found
    THEN [found |-> found, item |-> <<<<peer, StripPeerIdTag(address)>>>>]
    ELSE [found |-> found, item |-> <<>>]

\* handle_found_peer: the new found_peers and the Option returned
\* (<<>> is None, <<(peer, address)>> is Some)
HandleFoundPeer(found, peer, address) ==
    IF peer \notin found
    THEN [found |-> found \cup {peer}, item |-> <<<<peer, StripPeerIdTag(address)>>>>]
    ELSE [found |-> found, item |-> <<>>]

\* the (peer, address) a found-peer event hands to handle_found_peer
FoundArgs(e) ==
    IF e.kind = "RoutingUpdated" THEN <<e.peer, e.addresses[1]>>
    ELSE <<e.peer, e.address>>

\* mutant: only the first listen address is added
AddListenAddrsFirst(kad, e) ==
    IF e.listen_addrs = <<>> THEN kad ELSE kad \cup {<<e.peer, e.listen_addrs[1]>>}

\* for address in info.listen_addrs { kademlia.add_address(&peer_id, address) }
AddListenAddrs(kad, e) ==
    kad \cup {<<e.peer, e.listen_addrs[i]>> : i \in DOMAIN e.listen_addrs}

\* mutant: the peers a query result lists are taken as found
OnClosestPeersInsert(found, e) == found \cup e.peers

\* QueryResult::GetClosestPeers(Ok(r)): peers not in found_peers are only
\* logged
OnClosestPeers(found, e) == found

\* the loop of poll_next: take swarm events until one yields an item or the
\* swarm is Pending
RECURSIVE PollLoop(_, _, _, _)
PollLoop(events, found, kad, dropped) ==
    IF events = <<>>
    THEN [result |-> "Pending", item |-> <<>>, events |-> events, found |-> found,
          kad |-> kad, dropped |-> dropped]
    ELSE LET e == Head(events) IN
         IF e.kind \in {"RoutingUpdated", "RoutablePeer", "PendingRoutablePeer"}
         THEN LET h == HandleFoundPeer(found, FoundArgs(e)[1], FoundArgs(e)[2]) IN
              IF h.item # <<>>
              THEN [result |-> "Item", item |-> h.item, events |-> Tail(events),
                    found |-> h.found, kad |-> kad, dropped |-> dropped]
              ELSE PollLoop(Tail(events), h.found, kad, dropped \cup {e.peer})
         ELSE IF e.kind = "Identify"
         THEN PollLoop(Tail(events), found, AddListenAddrs(kad, e), dropped)
         ELSE IF e.kind = "GetClosestPeers"
         THEN PollLoop(Tail(events), OnClosestPeers(found, e), kad, dropped)
         ELSE PollLoop(Tail(events), found, kad, dropped)

\* mutant: > in place of >=
LimitReachedStrict(limit, found) == limit # <<>> /\ Cardinality(found) > limit[1]

\* mutant: <= in place of >=
LimitReachedBelow(limit, found) == limit # <<>> /\ Cardinality(found) <= limit[1]

\* found_peers.len() >= found_peers_limit
LimitReached(limit, found) == limit # <<>> /\ Cardinality(found) >= limit[1]

\* elapsed > 5 s and the local peer is the one named "5"
QueryDue(late) == late /\ is_peer_5

Limits == {<<>>} \cup {<<n>> : n \in 0..MaxLimit}

DiscoveryInit ==
    /\ found_peers_limit \in Limits
    /\ is_peer_5 \in BOOLEAN
    /\ found_peers = {}
    /\ swarm_events = <<>>
    /\ kad_addresses = {}
    /\ kad_queries = 0
    /\ d_emitted = <<>>
    /\ d_dropped = {}
    /\ d_last = "new"

DiscoveryIdle ==
    /\ found_peers_limit = <<>>
    /\ is_peer_5 = FALSE
    /\ found_peers = {}
    /\ swarm_events = <<>>
    /\ kad_addresses = {}
    /\ kad_queries = 0
    /\ d_emitted = <<>>
    /\ d_dropped = {}
    /\ d_last = "new"

\* the swarm (kademlia, identify, transport) makes an event ready
SwarmEvent(e) ==
    /\ Len(swarm_events) < MaxQueue
    /\ swarm_events' = Append(swarm_events, e)
    /\ UNCHANGED <<found_peers_limit, found_peers, is_peer_5, kad_addresses,
                   kad_queries, d_emitted, d_dropped, d_last>>
    /\ UNCHANGED <<rvars, mvars>>

\* Stream::poll_next; late: more than 5 s have passed since time_last_query_sent
PollNext(late) ==
    /\ QueryDue(late) => kad_queries < MaxQueries
    /\ kad_queries' = IF QueryDue(late) THEN kad_queries + 1 ELSE kad_queries
    /\ IF LimitReached(found_peers_limit, found_peers)
       THEN /\ d_last' = "End"
            /\ UNCHANGED <<found_peers, swarm_events, kad_addresses, d_emitted,
                           d_dropped>>
       ELSE LET r == PollLoop(swarm_events, found_peers, kad_addresses, d_dropped) IN
            /\ found_peers' = r.found
            /\ swarm_events' = r.events
            /\ kad_addresses' = r.kad
            /\ d_emitted' = d_emitted \o r.item
            /\ d_dropped' = r.dropped
            /\ d_last' = r.result
    /\ UNCHANGED <<found_peers_limit, is_peer_5>>
    /\ UNCHANGED <<rvars, mvars>>

(***************************************************************************)
(* Network manager loop with MockSwarm and MockDBExecutor:                 *)
(* network_manager/test.rs.  The manager's own loop (GenericNetworkManager)*)
(* is modelled from its specification.                                     *)
(***************************************************************************)

\* the inbound session ids the tests inject; query s is the query of session s
Inbound == {0, 1}

\* Data::BlockHeaderAndSignature { header, signature: None }
HeaderData(h) == [type |-> "BlockHeaderAndSignature", header |-> h]

\* Data::Fin
Fin == [type |-> "Fin"]

\* the fixture of query s: n results, all Ok(header) except an
\* Err(BlockNotFound { query_id }) at position errAt (0: none)
HeaderResults(s, n, errAt) ==
    [i \in 1..n |->
        IF i = errAt THEN [ok |-> FALSE, error |-> "BlockNotFound", query_id |-> s]
        ELSE [ok |-> TRUE, header |-> <<s, i>>]]

\* the same fixture with Err(Internal { query_id }) as its error
HeaderResultsInternal(s, n, errAt) ==
    [i \in 1..n |->
        IF i = errAt THEN [ok |-> FALSE, error |-> "Internal", query_id |-> s]
        ELSE [ok |-> TRUE, header |-> <<s, i>>]]

Fixtures(s) ==
    {HeaderResults(s, n, e) : n \in 0..MaxHeaders, e \in 0..MaxHeaders}
    \cup {HeaderResultsInternal(s, n, n) : n \in 1..MaxHeaders}

\* channel(header_buffer_size): both ends open, nothing queued
NewChannel == [buf |-> <<>>, parked |-> FALSE, rx_open |-> TRUE, tx_open |-> TRUE]

NoChannel == [buf |-> <<>>, parked |-> FALSE, rx_open |-> FALSE, tx_open |-> FALSE]

\* the result of a task that has not finished
NoResult == [ok |-> TRUE, query_id |-> -1]

NoTask == [state |-> "none", rest |-> <<>>, result |-> NoResult, query_id |-> -1]

\* mutant: the item is queued ahead of those waiting
StartSendFront(c, item) ==
    [c EXCEPT !.buf = <<item>> \o c.buf,
              !.parked = Len(c.buf) + 1 > header_buffer_size]

\* Sender::start_send: the item is queued; the sender parks itself when the
\* queue then holds more than the buffer
StartSend(c, item) ==
    [c EXCEPT !.buf = Append(c.buf, item),
              !.parked = Len(c.buf) + 1 > header_buffer_size]

\* the receiver takes the next item and unparks the sender
Receive(c) == [c EXCEPT !.buf = Tail(c.buf), !.parked = FALSE]

\* the receiver is dropped: the channel closes and what it holds is gone
DropReceiver(c) == [c EXCEPT !.buf = <<>>, !.parked = FALSE, !.rx_open = FALSE]

\* mutant: a parked sender is reported ready
PollReadyNoPark(c) == IF ~c.rx_open THEN "Err" ELSE "Ok"

\* mutant: a sender whose receiver is gone is reported ready
PollReadyIgnoreClosed(c) == IF c.parked THEN "Pending" ELSE "Ok"

\* poll_fn(|cx| sender.poll_ready(cx)): "Err" (receiver gone), "Pending"
\* (parked) or "Ok"
PollReady(c) ==
    IF ~c.rx_open THEN "Err" ELSE IF c.parked THEN "Pending" ELSE "Ok"

\* mutant: the task does not write Fin
TaskFinalItemsNone == <<>>

\* what the task sends once the headers are exhausted
TaskFinalItems == <<Fin>>

\* if let Ok(()) = poll_ready { start_send(item) }
SendIfReady(c, item) == IF PollReady(c) = "Ok" THEN StartSend(c, item) ELSE c

\* mutant: the task writes Fin before it returns the error
AfterErrorWithFin(c) == [SendIfReady(c, Fin) EXCEPT !.tx_open = FALSE]

\* let header = header_result?;  on Err the async block returns: nothing is
\* sent and the sender it owns is dropped
AfterError(c) == [c EXCEPT !.tx_open = FALSE]

\* mutant: the counter is not advanced
NextQueryIdStuck(n) == n

\* self.next_query_id += 1
NextQueryId(n) == n + 1

\* MockDBExecutor::register_query: the id returned
RegisterQueryId == next_query_id

\* tokio::task::spawn(async move { for header_result in headers ... })
SpawnedTask(headers, qid) ==
    [state |-> "running", rest |-> headers, result |-> NoResult, query_id |-> qid]

\* mutant: the data channel is closed after every send
SendDataPanicsAfterAny(s) == sent[s] # <<>>

\* MockSwarm::send_data: the call is recorded; a send after close_channel
\* (after a Fin) fails and the unwrap panics
SendDataPanics(s) == \E i \in DOMAIN sent[s] : sent[s][i] = Fin

ManagerInit ==
    /\ header_buffer_size \in 1..MaxBuffer
    /\ \E ids \in {<<0>>, <<0, 1>>} :
        /\ swarm_pending = ids
        /\ headers_of \in
              {f \in [Inbound -> UNION {Fixtures(s) : s \in Inbound}] :
                  \A s \in Inbound :
                      IF \E i \in DOMAIN ids : ids[i] = s
                      THEN f[s] \in Fixtures(s) ELSE f[s] = <<>>}
        /\ query_to_headers = [s \in {ids[i] : i \in DOMAIN ids} |-> headers_of[s]]
    /\ next_query_id = 0
    /\ task = [s \in Inbound |-> NoTask]
    /\ chan = [s \in Inbound |-> NoChannel]
    /\ active_inbound = {}
    /\ sent = [s \in Inbound |-> <<>>]
    /\ m_panicked = FALSE
    /\ m_dropped = FALSE

ManagerIdle ==
    /\ header_buffer_size = 1
    /\ headers_of = [s \in Inbound |-> <<>>]
    /\ swarm_pending = <<>>
    /\ query_to_headers = <<>>
    /\ next_query_id = 0
    /\ task = [s \in Inbound |-> NoTask]
    /\ chan = [s \in Inbound |-> NoChannel]
    /\ active_inbound = {}
    /\ sent = [s \in Inbound |-> <<>>]
    /\ m_panicked = FALSE
    /\ m_dropped = FALSE

\* the manager takes NewInboundQuery{query, inbound_session_id} from the swarm:
\* it creates the channel, registers the query with the executor (which
\* spawns the task) and retains (id, receiver)
HandleNewInboundQuery ==
    /\ ~m_panicked /\ ~m_dropped
    /\ swarm_pending # <<>>
    /\ LET s == Head(swarm_pending) IN
        /\ s \in DOMAIN query_to_headers
        /\ swarm_pending' = Tail(swarm_pending)
        /\ chan' = [chan EXCEPT ![s] = NewChannel]
        /\ task' = [task EXCEPT ![s] = SpawnedTask(query_to_headers[s], RegisterQueryId)]
        /\ next_query_id' = NextQueryId(next_query_id)
        /\ query_to_headers' =
                [q \in (DOMAIN query_to_headers) \ {s} |-> query_to_headers[q]]
        /\ active_inbound' = active_inbound \cup {s}
    /\ UNCHANGED <<header_buffer_size, headers_of, sent, m_panicked, m_dropped>>
    /\ UNCHANGED <<rvars, dvars>>

\* one step of the task spawned by register_query, from one await to the next
TaskStep(s) ==
    /\ task[s].state = "running"
    /\ IF task[s].rest # <<>>
       THEN LET r == Head(task[s].rest) IN
            IF ~r.ok
            THEN \* let header = header_result?;  the task returns the error
                 /\ task' = [task EXCEPT ![s].state = "finished",
                                         ![s].result = r]
                 /\ chan' = [chan EXCEPT ![s] = AfterError(chan[s])]
            ELSE /\ PollReady(chan[s]) # "Pending"
                 /\ chan' = [chan EXCEPT ![s] = SendIfReady(chan[s], HeaderData(r.header))]
                 /\ task' = [task EXCEPT ![s].rest = Tail(task[s].rest)]
       ELSE /\ TaskFinalItems # <<>> => PollReady(chan[s]) # "Pending"
            /\ chan' = [chan EXCEPT ![s] =
                    [(IF TaskFinalItems # <<>>
                      THEN SendIfReady(chan[s], TaskFinalItems[1])
                      ELSE chan[s]) EXCEPT !.tx_open = FALSE]]
            /\ task' = [task EXCEPT ![s].state = "finished",
                                    ![s].result = [ok |-> TRUE,
                                                   query_id |-> task[s].query_id]]
    /\ UNCHANGED <<header_buffer_size, headers_of, swarm_pending, query_to_headers,
                   next_query_id, active_inbound, sent, m_panicked, m_dropped>>
    /\ UNCHANGED <<rvars, dvars>>

\* the manager takes the item ready on the channel of inbound session s and
\* passes it to swarm.send_data; on Fin it closes the inbound entry
ForwardData(s) ==
    /\ ~m_panicked /\ ~m_dropped
    /\ s \in active_inbound
    /\ chan[s].buf # <<>>
    /\ LET item == Head(chan[s].buf) IN
        /\ sent' = [sent EXCEPT ![s] = Append(sent[s], item)]
        /\ m_panicked' = SendDataPanics(s)
        /\ IF item = Fin
           THEN /\ active_inbound' = active_inbound \ {s}
                /\ chan' = [chan EXCEPT ![s] = DropReceiver(chan[s])]
           ELSE /\ active_inbound' = active_inbound
                /\ chan' = [chan EXCEPT ![s] = Receive(chan[s])]
    /\ UNCHANGED <<header_buffer_size, headers_of, swarm_pending, query_to_headers,
                   next_query_id, task, m_dropped>>
    /\ UNCHANGED <<rvars, dvars>>

\* the inbound session of the query an executor error names
SessionOfQuery(qid) == {s \in Inbound : task[s].state # "none" /\ task[s].query_id = qid}

\* mutant: the abort sends Fin and keeps the entries
DroppedByAbortNone(aborted) == {}

\* the entries the manager drops when it aborts the sessions `aborted`
DroppedByAbort(aborted) == aborted

\* the manager takes the completion of the task of session t from the
\* executor: Ok needs nothing; on an error it aborts the inbound session of
\* the query the error names (send_data(Fin), then the entry is dropped)
HandleCompletion(t) ==
    /\ ~m_panicked /\ ~m_dropped
    /\ task[t].state = "finished"
    /\ task' = [task EXCEPT ![t].state = "yielded"]
    /\ LET aborted == IF task[t].result.ok THEN {}
                       ELSE SessionOfQuery(task[t].result.query_id) \cap active_inbound
       IN /\ sent' = [s \in Inbound |->
                        IF s \in aborted THEN Append(sent[s], Fin) ELSE sent[s]]
          /\ m_panicked' = \E s \in aborted : SendDataPanics(s)
          /\ active_inbound' = active_inbound \ DroppedByAbort(aborted)
          /\ chan' = [s \in Inbound |->
                        IF s \in DroppedByAbort(aborted)
                        THEN DropReceiver(chan[s]) ELSE chan[s]]
    /\ UNCHANGED <<header_buffer_size, headers_of, swarm_pending, query_to_headers,
                   next_query_id, m_dropped>>
    /\ UNCHANGED <<rvars, dvars>>

\* the manager is dropped, and with it the swarm, the executor and every
\* receiver it holds; the spawned tasks are detached and keep running
DropManager ==
    /\ ~m_dropped
    /\ m_dropped' = TRUE
    /\ chan' = [s \in Inbound |->
                  IF chan[s] = NoChannel THEN chan[s] ELSE DropReceiver(chan[s])]
    /\ active_inbound' = {}
    /\ swarm_pending' = <<>>
    /\ query_to_headers' = <<>>
    /\ UNCHANGED <<header_buffer_size, headers_of, next_query_id, task, sent,
                   m_panicked>>
    /\ UNCHANGED <<rvars, dvars>>

Init == RouterInit /\ DiscoveryIdle /\ ManagerIdle

Next ==
    \/ \E q \in Queries, p \in Peers : SendQuery(q, p)
    \/ \E p \in Peers : ConnectionEstablished(p)
    \/ \E k \in {"ConnectionClosed", "DialFailure"}, p \in Peers : OtherSwarmEvent(k, p)
    \/ Poll

Spec == Init /\ [][Next]_vars

\* the router with its whole interface: send_data and the handlers' events too
NextBehaviour ==
    \/ \E q \in Queries, p \in Peers : SendQuery(q, p)
    \/ \E p \in Peers : ConnectionEstablished(p)
    \/ \E k \in {"ConnectionClosed", "DialFailure"}, p \in Peers : OtherSwarmEvent(k, p)
    \/ \E id \in Inbound : SendData(id)
    \/ \E p \in Peers, id \in 0..(MaxSessions - 1), d \in {"header", "Fin"} :
            HandlerEvent(p, id, d)
    \/ Poll

SpecBehaviour == Init /\ [][NextBehaviour]_vars

InitDiscovery == RouterInit /\ DiscoveryInit /\ ManagerIdle

NextDiscovery ==
    \/ \E e \in SwarmEvents : SwarmEvent(e)
    \/ \E late \in BOOLEAN : PollNext(late)

SpecDiscovery == InitDiscovery /\ [][NextDiscovery]_vars

InitManager == RouterInit /\ DiscoveryIdle /\ ManagerInit

NextManager ==
    \/ HandleNewInboundQuery
    \/ \E s \in Inbound : TaskStep(s)
    \/ \E s \in Inbound : ForwardData(s)
    \/ \E s \in Inbound : HandleCompletion(s)

SpecManager == InitManager /\ [][NextManager]_vars

NextManagerDrop ==
    \/ HandleNewInboundQuery
    \/ \E s \in Inbound : TaskStep(s)
    \/ \E s \in Inbound : ForwardData(s)
    \/ \E t \in Inbound : HandleCompletion(t)
    \/ DropManager

SpecManagerDrop == InitManager /\ [][NextManagerDrop]_vars

\* the runtime keeps polling every spawned task and the manager's select
\* keeps polling every ready source
SpecManagerFair ==
    /\ InitManager
    /\ [][NextManager]_vars
    /\ WF_vars(HandleNewInboundQuery)
    /\ \A s \in Inbound :
          WF_vars(TaskStep(s)) /\ WF_vars(ForwardData(s)) /\ WF_vars(HandleCompletion(s))

(***************************************************************************)
(* Properties of the session router                                        *)
(***************************************************************************)

\* every event the router has queued so far: those polled, then those waiting
Emitted == r_polled \o pending_events

\* the positions of Emitted holding a handler notification for session id
NotifiedAt(id) ==
    {i \in DOMAIN Emitted : Emitted[i].type = "NotifyHandler" /\ Emitted[i].id = id}

\* C1: the OutboundSessionIds returned by successive send_query calls are
\* strictly increasing in call order (hence pairwise distinct).
C1_IdsStrictlyIncreasing ==
    \A i, j \in DOMAIN r_returned :
        i < j => r_returned[i].id < r_returned[j].id

C1_Witness ==
    /\ Len(r_returned) = MaxSessions
    /\ \E i, j \in DOMAIN r_returned : r_returned[i].peer # r_returned[j].peer
    /\ r_linked # {}
    /\ r_polled # <<>>

\* C2: ConnectionEstablished(P) queues one NotifyHandler(NewQueryEvent) per
\* query pending for P, addressed to P, in the order they were enqueued, and
\* removes P's pending entry; no session is ever notified twice, so a
\* further ConnectionEstablished(P) adds no duplicate.
C2_DrainStep ==
    r_last'.op = "ConnectionEstablished" =>
        LET p == r_last'.peer
            qs == PendingOf(pending_queries, p)
        IN  /\ pending_events' = pending_events \o
                    [i \in 1..Len(qs) |-> NotifyHandler(p, qs[i][1], qs[i][2])]
            /\ p \notin DOMAIN pending_queries'
            /\ \A x \in Peers \ {p} :
                    PendingOf(pending_queries', x) = PendingOf(pending_queries, x)

C2_NotifiedOnceInOrder ==
    /\ \A c \in {r_returned[i] : i \in DOMAIN r_returned} :
            /\ Cardinality(NotifiedAt(c.id)) <= 1
            /\ \A i \in NotifiedAt(c.id) :
                    Emitted[i] = NotifyHandler(c.peer, c.query, c.id)
    /\ \A i, j \in DOMAIN Emitted :
            (/\ i < j
             /\ Emitted[i].type = "NotifyHandler"
             /\ Emitted[j].type = "NotifyHandler"
             /\ Emitted[i].peer = Emitted[j].peer) => Emitted[i].id < Emitted[j].id

C2_PendingDrainedOnConnect ==
    [](C2_NotifiedOnceInOrder) /\ [][C2_DrainStep]_vars

C2_Witness ==
    /\ r_last.op = "ConnectionEstablished"
    /\ r_last.peer \notin DOMAIN pending_queries
    /\ Cardinality({i \in DOMAIN pending_events :
            /\ pending_events[i].type = "NotifyHandler"
            /\ pending_events[i].peer = r_last.peer}) >= 2

\* C3: send_query(q, P) with P not connected returns a fresh id, appends
\* (q, id) to P's pending list, queues Dial(P, condition Disconnected), and
\* a session still pending has no handler notification.
C3_DisconnectedStep ==
    (r_last'.op = "send_query" /\ r_last'.peer \notin r_linked) =>
        LET p == r_last'.peer
            q == r_last'.query
            id == r_last'.id
        IN  /\ \A i \in DOMAIN r_returned : r_returned[i].id # id
            /\ PendingOf(pending_queries', p) =
                    Append(PendingOf(pending_queries, p), <<q, id>>)
            /\ \A x \in Peers \ {p} :
                    PendingOf(pending_queries', x) = PendingOf(pending_queries, x)
            /\ pending_events' = Append(pending_events,
                    [type |-> "Dial", peer |-> p, condition |-> "Disconnected"])

C3_PendingNotNotified ==
    \A p \in DOMAIN pending_queries :
        \A k \in DOMAIN pending_queries[p] :
            NotifiedAt(pending_queries[p][k][2]) = {}

C3_DisconnectedSendDials ==
    [](C3_PendingNotNotified) /\ [][C3_DisconnectedStep]_vars

C3_Witness ==
    /\ r_last.op = "send_query"
    /\ r_last.peer \notin r_linked
    /\ Len(PendingOf(pending_queries, r_last.peer)) >= 2
    /\ pending_events # <<>>
    /\ pending_events[Len(pending_events)].type = "Dial"

\* C4: send_query(q, P) with P connected (ConnectionEstablished(P) delivered,
\* no ConnectionClosed(P) since) queues NotifyHandler(P, NewQueryEvent{q, id}),
\* queues no Dial and leaves the pending-queries map unchanged.
C4_ConnectedStep ==
    (r_last'.op = "send_query" /\ r_last'.peer \in r_linked) =>
        /\ pending_events' = Append(pending_events,
                NotifyHandler(r_last'.peer, r_last'.query, r_last'.id))
        /\ pending_queries' = pending_queries

C4_ConnectedSendNotifies == [][C4_ConnectedStep]_vars

(***************************************************************************)
(* Properties of discovery                                                 *)
(***************************************************************************)

\* C5: the discovery stream yields each PeerId at most once, whatever found-peer
\* events (RoutingUpdated, RoutablePeer, PendingRoutablePeer) the swarm delivers
\* and however often they repeat a peer.
C5_EachPeerEmittedOnce ==
    \A i, j \in DOMAIN d_emitted :
        d_emitted[i][1] = d_emitted[j][1] => i = j

C5_Witness ==
    /\ d_dropped = Peers
    /\ Len(d_emitted) = Cardinality(Peers)

\* C6: the last component of every address the discovery stream yields is not
\* a peer-id tag.
C6_NoTrailingPeerIdTag ==
    \A i \in DOMAIN d_emitted :
        LET a == d_emitted[i][2] IN a = <<>> \/ a[Len(a)] # "p2p"

\* C7: with found_peers_limit = L the stream never yields more than L items,
\* a poll made once L items were yielded returns end-of-stream and takes
\* nothing, and end-of-stream is returned only with exactly L items yielded
\* (for L = 0: by the first poll, with nothing yielded).
C7_WithinLimit ==
    /\ found_peers_limit # <<>> => Len(d_emitted) <= found_peers_limit[1]
    /\ d_last = "End" =>
            found_peers_limit # <<>> /\ Len(d_emitted) = found_peers_limit[1]

C7_PollAtLimitStep ==
    (/\ found_peers_limit # <<>>
     /\ Len(d_emitted) = found_peers_limit[1]
     /\ Len(swarm_events') <= Len(swarm_events)) =>
        /\ d_last' = "End"
        /\ d_emitted' = d_emitted
        /\ swarm_events' = swarm_events

C7_LimitEndsStream == [](C7_WithinLimit) /\ [][C7_PollAtLimitStep]_vars

C7_Witness ==
    /\ found_peers_limit = <<1>>
    /\ d_last = "End"
    /\ Len(d_emitted) = 1
    /\ \E i \in DOMAIN swarm_events :
            /\ swarm_events[i].kind \in {"RoutingUpdated", "RoutablePeer"}
            /\ swarm_events[i].peer \notin found_peers

(***************************************************************************)
(* Properties of the network manager                                       *)
(***************************************************************************)

\* the position of the first error in the fixture of query s (0: none)
FirstErr(s) ==
    LET errs == {i \in DOMAIN headers_of[s] : ~headers_of[s][i].ok}
    IN  IF errs = {} THEN 0 ELSE CHOOSE i \in errs : \A j \in errs : i <= j

\* the items of the headers query s yields before its first error
OkHeaders(s) ==
    [i \in 1..(IF FirstErr(s) = 0 THEN Len(headers_of[s]) ELSE FirstErr(s) - 1) |->
        [type |-> "BlockHeaderAndSignature", header |-> headers_of[s][i].header]]

IsPrefix(a, b) == Len(a) <= Len(b) /\ a = SubSeq(b, 1, Len(a))

Injected(s) == s \in DOMAIN query_to_headers \/ task[s].state # "none"

\* C8: for a query whose execution yields h1..hn and no error, the send_data
\* calls for its inbound session are always a prefix of
\* BlockHeaderAndSignature(h1), ..., BlockHeaderAndSignature(hn), Fin, are the
\* whole of it once the task has finished and its channel is drained, and
\* become the whole of it under every fair scheduling.
C8_SuccessPrefix ==
    \A s \in Inbound :
        (Injected(s) /\ FirstErr(s) = 0) =>
            /\ IsPrefix(sent[s], OkHeaders(s) \o <<[type |-> "Fin"]>>)
            /\ (task[s].state \in {"finished", "yielded"} /\ chan[s].buf = <<>>) =>
                    sent[s] = OkHeaders(s) \o <<[type |-> "Fin"]>>

C8_SuccessStream ==
    /\ [](C8_SuccessPrefix)
    /\ \A s \in Inbound :
          (Injected(s) /\ FirstErr(s) = 0) ~>
              (sent[s] = OkHeaders(s) \o <<[type |-> "Fin"]>>)

C8_Witness ==
    \E s \in Inbound :
        /\ header_buffer_size = 1
        /\ FirstErr(s) = 0
        /\ Len(headers_of[s]) = MaxHeaders
        /\ task[s].state = "yielded"
        /\ sent[s] = OkHeaders(s) \o <<[type |-> "Fin"]>>

\* C9: for a query that yields h1..hk and then fails with BlockNotFound, once
\* the manager has handled the executor's error the send_data calls for the
\* inbound session are exactly h1, ..., hk, Fin.
C9_ErrorStream ==
    \A s \in Inbound :
        (FirstErr(s) # 0 /\ task[s].state = "yielded") =>
            sent[s] = OkHeaders(s) \o <<[type |-> "Fin"]>>

\* C10: in the send_data calls of every inbound session id, a Fin is the last
\* call: there is at most one Fin and no call follows it.
C10_FinIsLast ==
    \A s \in Inbound :
        \A i \in DOMAIN sent[s] :
            sent[s][i] = [type |-> "Fin"] => i = Len(sent[s])

C10_Witness ==
    \E s, t \in Inbound :
        /\ FirstErr(s) = 0 /\ task[s].state = "yielded"
        /\ Len(sent[s]) >= 2 /\ sent[s][Len(sent[s])] = [type |-> "Fin"]
        /\ FirstErr(t) # 0 /\ task[t].state = "yielded"
        /\ Len(sent[t]) >= 2 /\ sent[t][Len(sent[t])] = [type |-> "Fin"]

\* the header items among the send_data calls of session s
SentHeaders(s) ==
    IF sent[s] # <<>> /\ sent[s][Len(sent[s])] = [type |-> "Fin"]
    THEN SubSeq(sent[s], 1, Len(sent[s]) - 1)
    ELSE sent[s]

\* C11: with two inbound sessions injected, every item sent under an inbound
\* session id is an item of that session's own query, the headers sent are in
\* the order the query yields them, only the last call is a Fin, and a query
\* that yields no error has all its headers and then Fin sent once its task
\* has finished and its channel is drained, under every interleaving.
C11_SessionsIsolated ==
    (\A s \in Inbound : Injected(s)) =>
        \A s \in Inbound :
            /\ \A i \in DOMAIN sent[s] :
                    sent[s][i] = [type |-> "Fin"] \/ sent[s][i].header[1] = s
            /\ \A i \in DOMAIN SentHeaders(s) : SentHeaders(s)[i] # [type |-> "Fin"]
            /\ IsPrefix(SentHeaders(s), OkHeaders(s))
            /\ (/\ FirstErr(s) = 0
                /\ task[s].state \in {"finished", "yielded"}
                /\ chan[s].buf = <<>>) =>
                    sent[s] = OkHeaders(s) \o <<[type |-> "Fin"]>>

C11_Witness ==
    /\ \A s \in Inbound :
            /\ FirstErr(s) = 0
            /\ Len(headers_of[s]) = MaxHeaders
            /\ task[s].state = "running"
            /\ Len(sent[s]) >= 1
    /\ chan[0].buf # <<>>
    /\ chan[1].buf # <<>>

Failed(s) == task[s].state \in {"finished", "yielded"} /\ ~task[s].result.ok

\* C13: a task that hits BlockNotFound stops at that result: nothing after it
\* is consumed, the channel never holds a Fin written by the task, the send
\* end is closed, and the error it returns carries the query's QueryId.
C13_StoppedAtError ==
    \A s \in Inbound : Failed(s) =>
        /\ FirstErr(s) # 0
        /\ task[s].rest = SubSeq(headers_of[s], FirstErr(s), Len(headers_of[s]))
        /\ task[s].result = headers_of[s][FirstErr(s)]
        /\ task[s].result.query_id = task[s].query_id
        /\ ~chan[s].tx_open
        /\ \A i \in DOMAIN chan[s].buf : chan[s].buf[i] # Fin

\* C13: from the error on the task sends nothing more, and the completion
\* stream yields its result once: finished becomes yielded and stays so.
C13_AfterErrorStep ==
    \A s \in Inbound : Failed(s) =>
        /\ Len(chan'[s].buf) <= Len(chan[s].buf)
        /\ task'[s].rest = task[s].rest /\ task'[s].result = task[s].result
        /\ task[s].state = "yielded" => task'[s].state = "yielded"
        /\ task'[s].state # task[s].state =>
                task[s].state = "finished" /\ task'[s].state = "yielded"

C13_ErrorEndsTask == [](C13_StoppedAtError) /\ [][C13_AfterErrorStep]_vars

C13_Witness ==
    \E s \in Inbound :
        /\ task[s].state = "yielded" /\ ~task[s].result.ok
        /\ task[s].result.error = "BlockNotFound"
        /\ FirstErr(s) >= 2 /\ FirstErr(s) < Len(headers_of[s])
        /\ Len(sent[s]) >= 2

\* the inbound sessions whose query has been registered with the executor
Registered == {s \in Inbound : task[s].state # "none"}

\* C14: the ids register_query has returned are pairwise different and all
\* below the counter, so the next one differs from each of them, whether
\* the earlier queries are running, finished or failed.
C14_QueryIdsFresh ==
    /\ \A s, t \in Registered : s # t => task[s].query_id # task[t].query_id
    /\ \A s \in Registered : task[s].query_id < next_query_id
    /\ next_query_id = Cardinality(Registered)

C14_Witness ==
    \E s, t \in Registered :
        /\ task[s].query_id < task[t].query_id
        /\ Failed(s) /\ task[s].state = "yielded"
        /\ task[t].state = "running" /\ Len(task[t].rest) = Len(headers_of[t])

\* a task that is at a send: its next result is a header, or it is at Fin
AtSend(s) ==
    /\ task[s].state = "running"
    /\ task[s].rest # <<>> => Head(task[s].rest).ok

\* C15 as stated: the items produced and not yet forwarded never exceed
\* header_buffer_size.
C15_WithinBufferSize ==
    \A s \in Inbound : Len(chan[s].buf) <= header_buffer_size

\* C15 amended: the items produced and not yet forwarded never exceed
\* header_buffer_size + 1 (the buffer plus the sender's own slot), and the
\* sender is parked exactly when that slot is taken.
C15_WithinCapacity ==
    \A s \in Inbound :
        /\ Len(chan[s].buf) <= header_buffer_size + 1
        /\ chan[s].parked <=> (chan[s].rx_open /\ Len(chan[s].buf) = header_buffer_size + 1)

\* C15 amended: an item enters a channel only when poll_ready was Ok, and a
\* task at a send whose sender is parked does nothing until the manager
\* dequeues.
C15_BackPressureStep ==
    \A s \in Inbound :
        /\ Len(chan'[s].buf) > Len(chan[s].buf) =>
                /\ PollReady(chan[s]) = "Ok"
                /\ Len(chan'[s].buf) = Len(chan[s].buf) + 1
        /\ (AtSend(s) /\ chan[s].parked) =>
                /\ task'[s] = task[s]
                /\ Len(chan'[s].buf) <= Len(chan[s].buf)

C15_BackPressure == [](C15_WithinCapacity) /\ [][C15_BackPressureStep]_vars

C15_Witness ==
    \E s \in Inbound :
        /\ AtSend(s) /\ task[s].rest # <<>>
        /\ chan[s].parked
        /\ Len(chan[s].buf) = header_buffer_size + 1

\* the steps a task has left at most: one per remaining result and one for Fin
StepsLeft(s) == IF task[s].state = "running" THEN Len(task[s].rest) + 1 ELSE 0

\* C16: once the manager is dropped every receiver is gone, no channel holds
\* an item, and a task still running is never made to wait.
C16_DroppedState ==
    m_dropped =>
        \A s \in Inbound :
            /\ chan[s].buf = <<>>
            /\ task[s].state # "none" => ~chan[s].rx_open
            /\ task[s].state = "running" =>
                    /\ PollReady(chan[s]) = "Err"
                    /\ ENABLED TaskStep(s)

\* C16: after the drop a task sends no further item and nothing more reaches
\* the swarm; every step is a task's and uses up one of the steps it has
\* left, which number its remaining results plus one.
C16_DroppedStep ==
    m_dropped =>
        /\ sent' = sent
        /\ \A s \in Inbound :
              /\ chan'[s].buf = chan[s].buf
              /\ task'[s] # task[s] =>
                    /\ task[s].state = "running"
                    /\ task'[s].state \in {"running", "finished"}
                    /\ StepsLeft(s)' < StepsLeft(s)

C16_TasksEndAfterDrop == [](C16_DroppedState) /\ [][C16_DroppedStep]_vars

C16_Witness ==
    /\ m_dropped
    /\ \E s \in Inbound :
        /\ task[s].state = "finished" /\ task[s].result.ok
        /\ Len(headers_of[s]) >= 2
        /\ sent[s] # <<>> /\ Len(sent[s]) < Len(headers_of[s])

\* C17: a dial failure for a peer with pending sessions leaves the router
\* running, clears the peer's pending entry and queues a PeerNotConnected
\* failure for each session that was pending.
C17_DialFailureStep ==
    (r_last'.op = "DialFailure" /\ r_last'.peer \in DOMAIN pending_queries) =>
        /\ ~r_panicked'
        /\ r_last'.peer \notin DOMAIN pending_queries'
        /\ Len(pending_events') =
                Len(pending_events) + Len(pending_queries[r_last'.peer])

C17_DialFailureFailsPending == [][C17_DialFailureStep]_vars

\* C18: ConnectionClosed(P) for a connected peer P leaves the router running
\* with P out of its connected set.
C18_ConnectionClosedStep ==
    r_last'.op = "ConnectionClosed" =>
        /\ ~r_panicked'
        /\ r_last'.peer \notin connected_peers'

C18_ConnectionClosedContinues == [][C18_ConnectionClosedStep]_vars

\* C19: send_data returns a value (Ok, or SessionIdNotFoundError for an id
\* that names no open inbound session) and an unknown id leaves the router's
\* state as it was.
C19_SendDataStep ==
    r_last'.op = "send_data" =>
        /\ ~r_panicked'
        /\ <<pending_queries', connected_peers', next_outbound_session_id'>> =
                <<pending_queries, connected_peers, next_outbound_session_id>>

C19_SendDataReturns == [][C19_SendDataStep]_vars

\* C20: data a handler reports for an outbound session it was handed is
\* surfaced as a RecievedData event for that session, in arrival order.
C20_HandlerEventStep ==
    r_last'.op = "handler_event" =>
        pending_events' =
            Append(pending_events, RecievedData(r_last'.data, r_last'.id))

C20_ReceivedDataSurfaced == [][C20_HandlerEventStep]_vars

(***************************************************************************)
(* Further properties of discovery                                         *)
(***************************************************************************)

\* C21: discovery keeps closest-peers queries outstanding whoever the node
\* is and whatever time has passed: once the stream has been polled, at
\* least one query has been issued.
C21_QueryIssuedOnPoll == d_last # "new" => kad_queries >= 1

\* a step of poll_next that got past the limit test and polled the swarm
PolledSwarm ==
    /\ Len(swarm_events') <= Len(swarm_events)
    /\ ~(/\ found_peers_limit # <<>>
         /\ Cardinality(found_peers) >= found_peers_limit[1])

\* the events such a step took from the swarm
Consumed == SubSeq(swarm_events, 1, Len(swarm_events) - Len(swarm_events'))

\* C22: a poll adds to the routing table, under Q, every listen address of
\* every identify Received event for Q it takes, and nothing else; a poll
\* that takes only identify events yields nothing and leaves found_peers as
\* it was.
C22_IdentifyStep ==
    PolledSwarm =>
        /\ kad_addresses' = kad_addresses \cup
                UNION {{<<Consumed[i].peer, Consumed[i].listen_addrs[k]>> :
                            k \in DOMAIN Consumed[i].listen_addrs} :
                       i \in {j \in DOMAIN Consumed : Consumed[j].kind = "Identify"}}
        /\ (\A i \in DOMAIN Consumed : Consumed[i].kind = "Identify") =>
                /\ d_emitted' = d_emitted
                /\ found_peers' = found_peers
                /\ swarm_events' = <<>>

C22_IdentifyFillsRoutingTable == [][C22_IdentifyStep]_vars

C22_Witness ==
    /\ kad_addresses = {<<"p1", AddrPlain>>, <<"p1", AddrTagged>>}
    /\ d_emitted = <<>> /\ found_peers = {}
    /\ d_last = "Pending" /\ swarm_events = <<>>

\* the events that are not RoutingUpdated, RoutablePeer, PendingRoutablePeer
\* or identify Received
IsOtherEvent(e) == e.kind \in {"GetClosestPeers", "IncomingConnection", "Other"}

\* C24: the other events yield nothing and leave found_peers alone, and the
\* poll goes on to the next event: a poll that takes only such events
\* empties the queue with nothing yielded and found_peers unchanged, and a
\* poll stops short of the end of the queue only at a found-peer event
\* whose pair it yields.
C24_OtherEventsStep ==
    PolledSwarm =>
        /\ (\A i \in DOMAIN Consumed : IsOtherEvent(Consumed[i])) =>
                /\ d_emitted' = d_emitted
                /\ found_peers' = found_peers
                /\ kad_addresses' = kad_addresses
                /\ swarm_events' = <<>>
                /\ d_last' = "Pending"
        /\ \A i \in DOMAIN Consumed :
                (IsOtherEvent(Consumed[i]) /\ swarm_events' # <<>>) => i < Len(Consumed)
        /\ found_peers' \ found_peers \subseteq
                {Consumed[i].peer : i \in {j \in DOMAIN Consumed :
                                                ~IsOtherEvent(Consumed[j])}}

C24_OtherEventsIgnored == [][C24_OtherEventsStep]_vars

\* a query result listing both peers is queued ahead of a found-peer event
\* while no peer is found, and the poll made here goes past the one and
\* yields the pair of the other
C24_Witness ==
    /\ found_peers = {} /\ found_peers_limit = <<>>
    /\ Len(swarm_events) = 2
    /\ swarm_events[1] = [kind |-> "GetClosestPeers", peers |-> Peers]
    /\ swarm_events[2].kind = "RoutablePeer"
    /\ d_last = "Pending"
    /\ ENABLED (/\ PollNext(FALSE)
                /\ swarm_events' = <<>>
                /\ found_peers' = {swarm_events[2].peer}
                /\ Len(d_emitted') = 1
                /\ d_last' = "Item")

\* C27: the pairs yielded so far are exactly one per peer of found_peers.
C27_EmittedAreFound ==
    /\ Len(d_emitted) = Cardinality(found_peers)
    /\ found_peers = {d_emitted[i][1] : i \in DOMAIN d_emitted}

\* C27: found_peers only grows, a poll yields at most one pair, and a peer
\* enters found_peers exactly when its pair is yielded.
C27_GrowStep ==
    /\ found_peers \subseteq found_peers'
    /\ Len(d_emitted') <= Len(d_emitted) + 1
    /\ SubSeq(d_emitted', 1, Len(d_emitted)) = d_emitted
    /\ found_peers' \ found_peers =
            {d_emitted'[i][1] : i \in (Len(d_emitted) + 1)..Len(d_emitted')}
    /\ (Len(d_emitted') > Len(d_emitted)) <=> (found_peers' # found_peers)

C27_FoundMatchesEmitted == [](C27_EmittedAreFound) /\ [][C27_GrowStep]_vars

C27_Witness ==
    /\ Len(d_emitted) = 2
    /\ found_peers = Peers
    /\ d_dropped # {}
    /\ kad_addresses # {}

\* C28: the stream is at end-of-stream only with the limit reached.
C28_EndAtLimit ==
    d_last = "End" =>
        /\ found_peers_limit # <<>>
        /\ Cardinality(found_peers) >= found_peers_limit[1]

\* C28: once a poll has returned end-of-stream every later poll returns it
\* too, takes no event from the swarm and leaves found_peers (and what was
\* yielded) as it was.
C28_AfterEndStep ==
    d_last = "End" =>
        /\ d_last' = "End"
        /\ found_peers' = found_peers
        /\ d_emitted' = d_emitted
        /\ kad_addresses' = kad_addresses
        /\ \/ swarm_events' = swarm_events
           \/ /\ Len(swarm_events') = Len(swarm_events) + 1
              /\ SubSeq(swarm_events', 1, Len(swarm_events)) = swarm_events

C28_EndIsFinal == [](C28_EndAtLimit) /\ [][C28_AfterEndStep]_vars

\* end-of-stream was returned with the limit 1 reached, an event of a peer
\* not yet found waits in the swarm, and the poll made here returns
\* end-of-stream again without taking it
C28_Witness ==
    /\ d_last = "End"
    /\ found_peers_limit = <<1>>
    /\ Len(d_emitted) = 1
    /\ swarm_events # <<>>
    /\ swarm_events[1].kind = "PendingRoutablePeer"
    /\ swarm_events[1].peer \notin found_peers
    /\ is_peer_5 /\ kad_queries = 0
    /\ ENABLED (/\ PollNext(TRUE)
                /\ kad_queries' = 1
                /\ d_last' = "End"
                /\ swarm_events' = swarm_events
                /\ found_peers' = found_peers)

(***************************************************************************)
(* Further properties of the session router                                *)
(***************************************************************************)

\* C23: poll returns the head of the queue and removes it (so the events
\* come out one per call, in the order queued, each once), returns Pending
\* exactly when the queue is empty, and never touches the pending-queries map
\* or the session id counter.
C23_PollStep ==
    r_last'.op = "poll" =>
        /\ (r_last'.result = "Pending") <=> (pending_events = <<>>)
        /\ pending_events # <<>> =>
                /\ r_last'.result = "Ready"
                /\ r_polled' = Append(r_polled, pending_events[1])
                /\ pending_events' = SubSeq(pending_events, 2, Len(pending_events))
        /\ pending_events = <<>> =>
                /\ r_polled' = r_polled
                /\ pending_events' = pending_events
        /\ pending_queries' = pending_queries
        /\ next_outbound_session_id' = next_outbound_session_id

\* C23: no other operation takes an event out of the queue or reorders it
C23_QueueStep ==
    r_last'.op # "poll" =>
        /\ r_polled' = r_polled
        /\ SubSeq(pending_events', 1, Len(pending_events)) = pending_events

C23_PollInOrder == [][C23_PollStep /\ C23_QueueStep]_vars

C23_Witness ==
    /\ r_last = [op |-> "poll", result |-> "Ready"]
    /\ Len(r_polled) >= 2
    /\ r_polled[1].type = "Dial"
    /\ r_polled[Len(r_polled)].type = "NotifyHandler"
    /\ Len(pending_events) >= 2
    /\ pending_queries # <<>>

\* the number of places holding session id: entries of the pending lists,
\* queued notifications and notifications already returned by poll
PendingPlaces(id) ==
    UNION {{<<p, k>> : k \in {j \in DOMAIN pending_queries[p] :
                                  pending_queries[p][j][2] = id}} :
           p \in DOMAIN pending_queries}

Places(id) == Cardinality(PendingPlaces(id)) + Cardinality(NotifiedAt(id))

\* C25: every allocated session id is in exactly one place, which carries
\* the peer and the query of its send_query call, and no place holds an id
\* that was not allocated.
C25_SessionsConserved ==
    /\ \A i \in DOMAIN r_returned :
          LET c == r_returned[i] IN
            /\ Places(c.id) = 1
            /\ \A pk \in PendingPlaces(c.id) :
                    pk[1] = c.peer /\ pending_queries[pk[1]][pk[2]] = <<c.query, c.id>>
            /\ \A k \in NotifiedAt(c.id) :
                    Emitted[k] = NotifyHandler(c.peer, c.query, c.id)
    /\ LET allocated == {r_returned[i].id : i \in DOMAIN r_returned} IN
          /\ \A p \in DOMAIN pending_queries : \A k \in DOMAIN pending_queries[p] :
                  pending_queries[p][k][2] \in allocated
          /\ \A k \in DOMAIN Emitted :
                  Emitted[k].type = "NotifyHandler" => Emitted[k].id \in allocated

C25_Witness ==
    /\ Len(r_returned) = 3
    /\ \E a, b, c \in {r_returned[i].id : i \in DOMAIN r_returned} :
          /\ PendingPlaces(a) # {}
          /\ \E k \in NotifiedAt(b) : k > Len(r_polled)
          /\ \E k \in NotifiedAt(c) : k <= Len(r_polled)

\* the positions of a sequence of events holding a Dial request for p
DialsAt(events, p) ==
    {i \in DOMAIN events : events[i].type = "Dial" /\ events[i].peer = p}

\* the send_query calls made to p
CallsTo(p) == {i \in DOMAIN r_returned : r_returned[i].peer = p}

\* C26: there are never more Dial requests for a peer than send_query calls
\* to it, and the k-th call's query is notified only after k Dial requests
\* for its peer.
C26_DialBeforeNotify ==
    /\ \A p \in Peers :
            Cardinality(DialsAt(Emitted, p)) <= Cardinality(CallsTo(p))
    /\ \A i \in DOMAIN r_returned :
          LET c == r_returned[i]
              k == Cardinality({j \in CallsTo(c.peer) : j <= i})
          IN  \A n \in NotifiedAt(c.id) :
                Cardinality({d \in DialsAt(Emitted, c.peer) : d < n}) >= k

\* C26: a send_query to a peer outside the connected set queues exactly one
\* Dial request, for that peer; ConnectionEstablished queues none.
C26_DialStep ==
    /\ (r_last'.op = "send_query" /\ r_last'.peer \notin connected_peers) =>
            pending_events' = Append(pending_events, Dial(r_last'.peer))
    /\ r_last'.op = "ConnectionEstablished" =>
            \A p \in Peers :
                Cardinality(DialsAt(pending_events', p)) =
                    Cardinality(DialsAt(pending_events, p))

C26_OneDialPerDisconnectedSend == [](C26_DialBeforeNotify) /\ [][C26_DialStep]_vars

C26_Witness ==
    /\ \E p \in Peers :
          /\ Cardinality(CallsTo(p)) = 3
          /\ Cardinality(DialsAt(Emitted, p)) = 3
          /\ p \in r_linked
          /\ p \in DOMAIN pending_queries
    /\ r_last.op = "send_query"
    /\ \E i \in DOMAIN Emitted : Emitted[i].type = "NotifyHandler"

====
